---- MODULE Spec2Model ----
(***************************************************************************)
(* Flowlab Modding Launcher (src/main.py): the games list, the two list    *)
(* boxes that mirror it, the games/ directory it is scanned from, and the  *)
(* handlers of the user actions and of the status timer.                   *)
(*                                                                         *)
(* A Python str is a sequence of one-character strings, so that lower(),   *)
(* endswith(), basename(), relpath(), join() and the comparison of sort    *)
(* keys are computed character by character as the interpreter does.       *)
(***************************************************************************)
EXTENDS Integers, Sequences, FiniteSets, TLC

\* ------------------------------------------------------------ bounds

\* Most files the games/ directory holds at once.
MaxFiles == 2
\* Most files one "Upload .exe(s)" selection holds.
MaxUpload == 2
\* Most changes made to the disk from outside the launcher in one run.
MaxExternal == 1

\* ------------------------------------------------------------ str

\* The characters used, in increasing code point order.
CodePoints ==
    << " ", "(", ")", ".", "/", ":",
       "A", "B", "C", "D", "E", "F", "G", "H", "I", "J", "K", "L", "M",
       "N", "O", "P", "Q", "R", "S", "T", "U", "V", "W", "X", "Y", "Z",
       "\\",
       "a", "b", "c", "d", "e", "f", "g", "h", "i", "j", "k", "l", "m",
       "n", "o", "p", "q", "r", "s", "t", "u", "v", "w", "x", "y", "z" >>

Chars == { CodePoints[i] : i \in 1..Len(CodePoints) }

OrdTable == [ c \in Chars |-> CHOOSE i \in 1..Len(CodePoints) : CodePoints[i] = c ]

ord(c) == OrdTable[c]

\* First and last upper-case index of CodePoints and the distance to the
\* lower-case letter.
IsUpper(c) == ord(c) >= ord("A") /\ ord(c) <= ord("Z")

LowerTable ==
    [ c \in Chars |-> IF IsUpper(c) THEN CodePoints[ord(c) + (ord("a") - ord("A"))] ELSE c ]

lower_char(c) == LowerTable[c]

\* str.lower()
lower(s) == [i \in 1..Len(s) |-> lower_char(s[i])]

\* str.endswith(suffix)
endswith(s, suffix) ==
    /\ Len(s) >= Len(suffix)
    /\ SubSeq(s, Len(s) - Len(suffix) + 1, Len(s)) = suffix

\* str.startswith(prefix)
startswith(s, prefix) ==
    /\ Len(s) >= Len(prefix)
    /\ SubSeq(s, 1, Len(prefix)) = prefix

\* sub in s
contains(s, sub) ==
    \E i \in 0..(Len(s) - Len(sub)) : SubSeq(s, i + 1, i + Len(sub)) = sub

\* s < t for two str: the first differing code point decides, a proper prefix
\* is smaller.
RECURSIVE LtFrom(_, _, _)
LtFrom(s, t, i) ==
    IF i > Len(t) THEN FALSE
    ELSE IF i > Len(s) THEN TRUE
    ELSE IF s[i] = t[i] THEN LtFrom(s, t, i + 1)
    ELSE ord(s[i]) < ord(t[i])

str_lt(s, t) == LtFrom(s, t, 1)

\* ------------------------------------------------------------ constants

MODDER_EXE ==
    << "F", "l", "o", "w", "l", "a", "b", "M", "o", "d", "d", "i", "n", "g",
       "U", "t", "i", "l", "i", "t", "y", ".", "e", "x", "e" >>

GAMES_FOLDER_NAME == << "g", "a", "m", "e", "s" >>

MODDED_EXT == << ".", "e", "x", "e" >>

STATUS_POLL_MS == 2000

\* ------------------------------------------------------------ os.path

sep == << "\\" >>

\* ntpath splits a path at either separator.
altsep == << "/" >>

IsSep(c) == c = "\\" \/ c = "/"

\* Index of the last separator of p, 0 when it has none.
LastSep(p) ==
    LET at == { i \in 1..Len(p) : IsSep(p[i]) }
    IN  IF at = {} THEN 0 ELSE CHOOSE i \in at : \A j \in at : j <= i

basename(p) == SubSeq(p, LastSep(p) + 1, Len(p))

dirname(p) == SubSeq(p, 1, LastSep(p) - 1)

isabs(p) ==
    \/ Len(p) >= 1 /\ IsSep(p[1])
    \/ Len(p) >= 3 /\ p[2] = ":" /\ IsSep(p[3])

\* os.path.normpath(p): the alternative separator becomes the separator and
\* trailing separators are dropped.
RECURSIVE StripSeps(_)
StripSeps(p) ==
    IF Len(p) > 3 /\ p[Len(p)] = sep[1] THEN StripSeps(SubSeq(p, 1, Len(p) - 1)) ELSE p

normpath(p) == StripSeps([i \in 1..Len(p) |-> IF p[i] = altsep[1] THEN sep[1] ELSE p[i]])

join(a, b) ==
    IF isabs(b) THEN b
    ELSE IF a = << >> \/ IsSep(a[Len(a)]) THEN a \o b
    ELSE a \o sep \o b

\* os.path.relpath(p, start), for a path p below start: what follows start
\* and the separator. (Every path the launcher passes lies below base_dir.)
relpath(p, start) ==
    IF startswith(p, start \o sep) THEN SubSeq(p, Len(start) + 2, Len(p)) ELSE p

\* get_base_dir(): the directory of the launcher.
get_base_dir == << "C", ":", "\\", "L" >>

base_dir == get_base_dir

games_dir == join(base_dir, GAMES_FOLDER_NAME)

\* ------------------------------------------------------------ the disk

\* The disk is the set of its files, each the directory it lies in and its
\* name; a directory exists when a file lies in or below it, and games_dir
\* always does (__init__ creates it).
Entry(p) == [ dir |-> dirname(p), name |-> basename(p) ]

PathOf(e) == join(e.dir, e.name)

IsFile(F, p) == \E e \in F : PathOf(e) = p

IsDir(F, d) ==
    d = base_dir \/ d = games_dir \/ \E e \in F : e.dir = d \/ startswith(e.dir, d \o sep)

exists(F, p) == IsFile(F, p) \/ IsDir(F, p)

\* The order in which a directory yields its entries: arbitrary, but the same
\* at every reading of an unchanged directory. It is the code point order of
\* the names here.
RECURSIVE scandir_order(_)
scandir_order(names) ==
    IF names = {} THEN << >>
    ELSE LET first == CHOOSE n \in names : \A m \in names : m = n \/ str_lt(n, m)
         IN  << first >> \o scandir_order(names \ { first })

\* The name of the directory directly below top that the directory d lies in
\* or is.
ChildName(d, top) ==
    LET rel == relpath(d, top)
        seps == { k \in 1..Len(rel) : IsSep(rel[k]) }
    IN  IF seps = {} THEN rel
        ELSE SubSeq(rel, 1, (CHOOSE k \in seps : \A j \in seps : k <= j) - 1)

\* for root, dirs, files in os.walk(top): for fname in files:
\*     os.path.join(root, fname)
\* top-down: the files of a directory, then each of its directories in turn;
\* a directory that cannot be read yields nothing and raises nothing
\* (onerror is None).
RECURSIVE walk(_, _)
walk(F, top) ==
    LET files == { e.name : e \in { f \in F : f.dir = top } }
        dirs == { ChildName(e.dir, top) : e \in { f \in F : startswith(f.dir, top \o sep) } }
        RECURSIVE Below(_)
        Below(ds) == IF ds = << >> THEN << >> ELSE walk(F, join(top, Head(ds))) \o Below(Tail(ds))
        ordered == scandir_order(files)
    IN  [ i \in 1..Len(ordered) |-> join(top, ordered[i]) ] \o Below(scandir_order(dirs))

\* ------------------------------------------------------------ scan_games

\* The sort key of scan_games.
sort_key(p) == lower(relpath(p, base_dir))

\* list.sort(key=...): stable, an element goes after those whose key is not
\* greater.
RECURSIVE InsertByKey(_, _)
InsertByKey(x, s) ==
    IF s = << >> THEN << x >>
    ELSE IF str_lt(sort_key(x), sort_key(Head(s))) THEN << x >> \o s
    ELSE << Head(s) >> \o InsertByKey(x, Tail(s))

RECURSIVE sort(_)
sort(s) == IF s = << >> THEN << >> ELSE InsertByKey(s[Len(s)], sort(SubSeq(s, 1, Len(s) - 1)))

\* The filter without lower(): a name in upper case is passed over.
is_game_file_case_sensitive(fname) == endswith(fname, MODDED_EXT)

\* The filter of scan_games on a file name.
is_game_file(fname) == endswith(lower(fname), MODDED_EXT)

\* A row that shows the file name alone.
display_of_name_only(p) == basename(p)

\* The row a game is shown as.
display_of(p) == relpath(p, base_dir)

NO_GAMES_ROW ==
    << "(", "N", "o", " ", "g", "a", "m", "e", "s", " ", "f", "o", "u", "n", "d",
       " ", "i", "n", " ", "g", "a", "m", "e", "s", "/", ")" >>

\* ------------------------------------------------------------ state

VARIABLES
    fs,              \* the files on disk below games_dir
    games,           \* self.games
    games_listbox,   \* the rows of self.games_listbox
    modded_listbox,  \* the rows of self.modded_listbox
    games_sel,       \* games_listbox.curselection(): << >> or << index >>
    modded_sel,      \* modded_listbox.curselection()
    modder_label,    \* the text of self.modder_status_label
    after_queue,     \* the number of _poll_modder_status callbacks scheduled
    nExternal,       \* the changes made to the disk from outside so far
    ev               \* what the last handler was given and did

vars ==
    << fs, games, games_listbox, modded_listbox, games_sel, modded_sel,
       modder_label, after_queue, nExternal, ev >>

None == << >>

\* The file names and directories the disk is drawn from.
x_exe == << "x", ".", "e", "x", "e" >>
Y_EXE == << "Y", ".", "E", "X", "E" >>
n_txt == << "n", ".", "t", "x", "t" >>

dir_a == join(games_dir, << "a" >>)
dir_ab == join(dir_a, << "b" >>)

\* Two games of one name in two directories, a game with an upper-case name
\* two levels down, a file that is no game.
Universe ==
    { Entry(p) : p \in { join(games_dir, x_exe), join(games_dir, Y_EXE), join(games_dir, n_txt),
                         join(dir_a, x_exe), join(dir_ab, Y_EXE) } }

Disks == { F \in SUBSET Universe : Cardinality(F) <= MaxFiles }

\* ------------------------------------------------------------ inputs

\* What askopenfilenames returns: the paths use the alternative separator.
src_Y == << "D", ":", "/" >> \o Y_EXE
src_dx == << "D", ":", "/", "d", "/" >> \o x_exe

SourceFiles == { src_Y, src_dx }

\* The selections of at most MaxUpload files, none twice.
Selections ==
    { f \in UNION { [ 1..n -> SourceFiles ] : n \in 0..MaxUpload } :
        \A i, j \in 1..Len(f) : i # j => f[i] # f[j] }

CopyOutcomes == { "ok", "fail", "partial" }

\* What askdirectory returns, and the files of that folder.
src_folder == << "D", ":", "/", "a" >>

FolderContents == { x_exe, << "b", "\\" >> \o Y_EXE }

\* What the rename prompt returns.
NewNames == { None, n_txt, x_exe }

\* What psutil and tasklist report.
other_exe == << "N", "o", "t" >> \o MODDER_EXE

PsutilNames == { << None, lower(MODDER_EXE) >>, << x_exe >> }

Tasklists ==
    { [ ok |-> FALSE, out |-> << >> ],
      [ ok |-> TRUE, out |-> x_exe \o << " " >> \o other_exe ],
      [ ok |-> TRUE, out |-> x_exe ] }

\* The launcher while a handler runs: its fields, the disk, and what the
\* handler has done so far.
Self ==
    [ fs |-> fs, games |-> games, games_listbox |-> games_listbox,
      modded_listbox |-> modded_listbox, games_sel |-> games_sel,
      modded_sel |-> modded_sel, modder_label |-> modder_label,
      after_queue |-> after_queue,
      calls |-> << >>,     \* the os and subprocess calls made, in order
      dialogs |-> << >>,   \* the dialogs shown, in order
      raised |-> FALSE,    \* an exception is propagating
      scans |-> 0 ]        \* the calls of scan_games

Event(op) ==
    [ op |-> op, trigger |-> "", confirm |-> FALSE, new_name |-> None,
      files |-> << >>, names |-> << >>, tasklist |-> [ ok |-> FALSE, out |-> << >> ],
      calls |-> << >>, dialogs |-> << >>, raised |-> FALSE, scans |-> 0 ]

\* The handler `op` returned (or raised) leaving the launcher as `result`.
Return(result, e) ==
    \E self \in { result } :
    /\ fs' = self.fs
    /\ games' = self.games
    /\ games_listbox' = self.games_listbox
    /\ modded_listbox' = self.modded_listbox
    /\ games_sel' = self.games_sel
    /\ modded_sel' = self.modded_sel
    /\ modder_label' = self.modder_label
    /\ after_queue' = self.after_queue
    /\ ev' = [ e EXCEPT !.calls = self.calls, !.dialogs = self.dialogs,
                        !.raised = self.raised, !.scans = self.scans ]
    /\ UNCHANGED nExternal

\* ------------------------------------------------------------ dialogs, calls

Call(fn, arg, arg2, ok) == [ fn |-> fn, arg |-> arg, arg2 |-> arg2, ok |-> ok ]

showerror(self, title) == [ self EXCEPT !.dialogs = Append(@, << "showerror", title >>) ]

showwarning(self, title) == [ self EXCEPT !.dialogs = Append(@, << "showwarning", title >>) ]

\* A dialog that asks: askyesno, askstring, askopenfilenames, askdirectory.
ask(self, kind, title) == [ self EXCEPT !.dialogs = Append(@, << kind, title >>) ]

\* except Exception as e: messagebox.showerror(title, ...)
except_showerror(self, title) ==
    IF self.raised THEN showerror([ self EXCEPT !.raised = FALSE ], title) ELSE self

\* ------------------------------------------------------------ scan_games

\* The list scan_games builds from the disk F, and the rows it inserts for it.
scan_list(F) ==
    LET found == SelectSeq(walk(F, games_dir), LAMBDA p : is_game_file(basename(p)))
        sorted == sort(found)
    IN  [ games |-> sorted,
          rows |-> [ i \in 1..Len(sorted) |-> display_of(sorted[i]) ] ]

\* scan_games(): the games list and the rows of both list boxes are dropped
\* (and with the rows the selections), then rebuilt from the disk.
scan_games(self) ==
    LET new == scan_list(self.fs)
    IN  [ self EXCEPT
            !.games = new.games,
            !.games_listbox = IF new.games = << >> THEN << NO_GAMES_ROW >> ELSE new.rows,
            !.modded_listbox = IF new.games = << >> THEN << >> ELSE new.rows,
            !.games_sel = << >>,
            !.modded_sel = << >>,
            !.scans = @ + 1 ]

\* ------------------------------------------------------------ upload

\* safe_copy_file(src, dst): makedirs, then shutil.copy2. The copy succeeds,
\* fails leaving nothing, or fails after dst was created ("partial").
safe_copy_file(self, src, dst, outcome) ==
    [ self EXCEPT
        !.calls = Append(@, Call("shutil.copy2", src, dst, outcome = "ok")),
        !.fs = IF outcome \in { "ok", "partial" } THEN @ \cup { Entry(dst) } ELSE @,
        !.raised = outcome # "ok" ]

\* The body of the loop without its try: a failed copy leaves the handler.
upload_one_uncaught(self, src, outcome) ==
    safe_copy_file(self, src, join(games_dir, basename(src)), outcome)

\* The body of the loop of upload_files for one selected file.
upload_one(self, src, outcome) ==
    LET dst == join(games_dir, basename(src))
    IN  except_showerror(safe_copy_file(self, src, dst, outcome), "Upload error")

\* for src in files: ...  (an exception that leaves the body ends the loop)
RECURSIVE upload_loop(_, _, _)
upload_loop(self, files, outcomes) ==
    IF files = << >> \/ self.raised THEN self
    ELSE upload_loop(upload_one(self, Head(files), Head(outcomes)), Tail(files), Tail(outcomes))

\* upload_files(), the dialog returning `files`.
upload_files(self, files, outcomes) ==
    LET asked == ask(self, "askopenfilenames", "Select game .exe files to upload")
    IN  IF files = << >> THEN asked
        ELSE LET done == upload_loop(asked, files, outcomes)
             IN  IF done.raised THEN done ELSE scan_games(done)

\* shutil.copytree(src, dst, dirs_exist_ok): the files `copied` (paths relative
\* to src) arrive below dst; it raises when dst exists and may not, and when
\* `ok` is false.
copytree(self, src, dst, dirs_exist_ok, copied, ok) ==
    IF exists(self.fs, dst) /\ ~dirs_exist_ok
    THEN [ self EXCEPT !.calls = Append(@, Call("shutil.copytree", src, dst, FALSE)),
                       !.raised = TRUE ]
    ELSE [ self EXCEPT !.calls = Append(@, Call("shutil.copytree", src, dst, ok)),
                       !.fs = @ \cup { Entry(join(dst, r)) : r \in copied },
                       !.raised = ~ok ]

safe_copy_folder(self, src, dst, copied, ok) ==
    IF exists(self.fs, dst)
    THEN copytree(self, src, dst, TRUE, copied, ok)
    ELSE copytree(self, src, dst, FALSE, copied, ok)

\* upload_folder(), the dialog returning `src`.
upload_folder(self, src, copied, ok) ==
    LET asked == ask(self, "askdirectory", "Select a folder to upload into games/")
    IN  IF src = << >> THEN asked
        ELSE LET base_name == basename(normpath(src))
                 dst == join(games_dir, base_name)
                 tried == except_showerror(safe_copy_folder(asked, src, dst, copied, ok),
                                           "Upload error")
             IN  IF tried.raised THEN tried ELSE scan_games(tried)

\* ------------------------------------------------------------ modder

_modder_path == join(base_dir, MODDER_EXE)

_update_modder_label(self, running) ==
    [ self EXCEPT !.modder_label =
        IF running THEN "Modder status: running" ELSE "Modder status: not running" ]

\* is_process_running(exe_name): `names` are the process names psutil yields
\* before it ends or fails (none when it cannot be imported; a process
\* without a name yields None), `tasklist` is [ok, out].
is_process_running(exe_name, names, tasklist) ==
    LET exe == lower(exe_name)
    IN  IF \E i \in 1..Len(names) : names[i] # None /\ lower(names[i]) = exe THEN TRUE
        ELSE IF tasklist.ok THEN contains(lower(tasklist.out), exe)
        ELSE FALSE

\* self.after(ms, callback): one more callback is scheduled.
after(self, ms) == [ self EXCEPT !.after_queue = @ + 1 ]

\* A poll that does not schedule the next one.
_poll_modder_status_once(self, names, tasklist) ==
    _update_modder_label(self, is_process_running(MODDER_EXE, names, tasklist))

\* _poll_modder_status()
_poll_modder_status(self, names, tasklist) ==
    LET running == is_process_running(MODDER_EXE, names, tasklist)
    IN  after(_update_modder_label(self, running), STATUS_POLL_MS)

\* subprocess.Popen([exe], cwd=cwd)
Popen(self, exe, cwd, ok) ==
    [ self EXCEPT !.calls = Append(@, Call("subprocess.Popen", exe, cwd, ok)),
                  !.raised = ~ok ]

\* launch_modder(); `found` is os.path.exists(modder): the launcher's own
\* directory is not part of the modelled disk.
launch_modder(self, found, ok) ==
    LET modder == _modder_path
    IN  IF ~found THEN showerror(self, "Launch error")
        ELSE LET spawned == Popen(self, modder, base_dir, ok)
             IN  IF spawned.raised THEN except_showerror(spawned, "Launch error")
                 ELSE _update_modder_label(spawned, TRUE)

\* ------------------------------------------------------------ play, delete, rename

\* lb.get(index)
get(rows, index) == rows[index + 1]

\* [p for p in self.games if relpath(p, base_dir) == display
\*                          or basename(p) == basename(display)]
matches_of(self, display) ==
    SelectSeq(self.games,
              LAMBDA p : relpath(p, base_dir) = display \/ basename(p) = basename(display))

\* _get_selected_game(from_modded)
_get_selected_game(self, from_modded) ==
    LET lb_sel == IF from_modded THEN self.modded_sel ELSE self.games_sel
    IN  IF lb_sel = << >> THEN None
        ELSE IF lb_sel[1] >= Len(self.games) THEN None
        ELSE self.games[lb_sel[1] + 1]

\* The path play_selected_game and delete_selected_game resolve a row of the
\* modded list box to.
resolve_display(self, display) ==
    LET full == IF ~isabs(display) THEN join(base_dir, display) ELSE display
        matches == matches_of(self, display)
    IN  IF ~exists(self.fs, full)
        THEN (IF matches # << >> THEN matches[1] ELSE None)
        ELSE full

\* The end of play_selected_game with the spawn outside any try.
play_full_uncaught(self, full, ok) ==
    IF full = None \/ ~exists(self.fs, full) THEN showerror(self, "Play")
    ELSE Popen(self, full, dirname(full), ok /\ IsFile(self.fs, full))

\* The end of play_selected_game, from "if not full or not os.path.exists".
play_full(self, full, ok) ==
    IF full = None \/ ~exists(self.fs, full) THEN showerror(self, "Play")
    ELSE except_showerror(Popen(self, full, dirname(full), ok /\ IsFile(self.fs, full)), "Play error")

play_selected_game(self, from_modded, ok) ==
    IF from_modded
    THEN IF self.modded_sel = << >> THEN showwarning(self, "Play")
         ELSE play_full(self, resolve_display(self, get(self.modded_listbox, self.modded_sel[1])), ok)
    ELSE play_full(self, _get_selected_game(self, FALSE), ok)

\* os.remove(path): fails when the file is not there.
os_remove(self, path, ok) ==
    LET done == ok /\ IsFile(self.fs, path)
    IN  [ self EXCEPT !.calls = Append(@, Call("os.remove", path, << >>, done)),
                      !.fs = IF done THEN @ \ { Entry(path) } ELSE @,
                      !.raised = ~done ]

\* The end of delete_selected_game without the scan after os.remove.
delete_confirmed_no_rescan(self, full, ok) ==
    except_showerror(os_remove(self, full, ok), "Delete error")

\* The end of delete_selected_game, once the user has confirmed.
delete_confirmed(self, full, ok) ==
    LET removed == os_remove(self, full, ok)
    IN  except_showerror(IF removed.raised THEN removed ELSE scan_games(removed), "Delete error")

delete_selected_game(self, confirm, ok) ==
    IF self.modded_sel = << >> THEN showwarning(self, "Delete")
    ELSE LET display == get(self.modded_listbox, self.modded_sel[1])
             full == resolve_display(self, display)
         IN  IF full = None THEN showerror(self, "Delete")
             ELSE LET asked == ask(self, "askyesno", "Delete")
                  IN  IF ~confirm THEN asked ELSE delete_confirmed(asked, full, ok)

\* os.rename(src, dst): fails when src is not there; where dst is there it
\* fails (Windows) or replaces it (POSIX).
os_rename(self, src, dst, ok) ==
    LET done == ok /\ IsFile(self.fs, src)
    IN  [ self EXCEPT !.calls = Append(@, Call("os.rename", src, dst, done)),
                      !.fs = IF done THEN (@ \ { Entry(src) }) \cup { Entry(dst) } ELSE @,
                      !.raised = ~done ]

\* The end of rename_selected_game without the check of the extension.
rename_to_unchecked(self, full, new_name, ok) ==
    IF new_name = None THEN self
    ELSE LET renamed == os_rename(self, full, join(dirname(full), new_name), ok)
         IN  except_showerror(IF renamed.raised THEN renamed ELSE scan_games(renamed),
                              "Rename error")

\* The end of rename_selected_game, once the prompt has returned new_name
\* (None when it was cancelled).
rename_to(self, full, new_name, ok) ==
    IF new_name = None THEN self
    ELSE IF ~endswith(lower(new_name), MODDED_EXT) THEN showerror(self, "Rename")
    ELSE LET new_path == join(dirname(full), new_name)
             renamed == os_rename(self, full, new_path, ok)
         IN  except_showerror(IF renamed.raised THEN renamed ELSE scan_games(renamed),
                              "Rename error")

rename_selected_game(self, new_name, ok) ==
    IF self.modded_sel = << >> THEN showwarning(self, "Rename")
    ELSE LET display == get(self.modded_listbox, self.modded_sel[1])
             matches == matches_of(self, display)
             full == IF matches # << >> THEN matches[1] ELSE None
         IN  IF full = None \/ ~exists(self.fs, full) THEN showerror(self, "Rename")
             ELSE rename_to(ask(self, "askstring", "Rename"), full, new_name, ok)

\* ------------------------------------------------------------ actions

Blank ==
    [ fs |-> {}, games |-> << >>, games_listbox |-> << >>, modded_listbox |-> << >>,
      games_sel |-> << >>, modded_sel |-> << >>, modder_label |-> "Modder status: unknown",
      after_queue |-> 0, calls |-> << >>, dialogs |-> << >>, raised |-> FALSE, scans |-> 0 ]

\* __init__: the window is built, the directory scanned, the first poll run.
Init ==
    \E F \in Disks, names \in PsutilNames, tasklist \in Tasklists :
        LET built == [ Blank EXCEPT !.fs = F ]
            first == _poll_modder_status(scan_games(built), names, tasklist)
        IN  /\ fs = first.fs
            /\ games = first.games
            /\ games_listbox = first.games_listbox
            /\ modded_listbox = first.modded_listbox
            /\ games_sel = first.games_sel
            /\ modded_sel = first.modded_sel
            /\ modder_label = first.modder_label
            /\ after_queue = first.after_queue
            /\ nExternal = 0
            /\ ev = [ Event("__init__") EXCEPT !.scans = first.scans ]

\* A click on row `index` of a list box selects it; the list box takes the
\* selection from the other one (exportselection is left at its default).
select(self, lb, index) ==
    IF lb = "modded"
    THEN [ self EXCEPT !.modded_sel = << index >>, !.games_sel = << >> ]
    ELSE [ self EXCEPT !.games_sel = << index >>, !.modded_sel = << >> ]

RowsOf(lb) == IF lb = "modded" THEN modded_listbox ELSE games_listbox

\* app.mainloop() waits for the next event: no handler is running.
Idle == ev.op = "idle"

Select ==
    /\ Idle
    /\ \E lb \in { "games", "modded" } :
        \E index \in 0..(Len(RowsOf(lb)) - 1) :
            Return(select(Self, lb, index), Event("idle"))

\* "Scan games/" and "Refresh Lists"
ScanGames == Idle /\ Return(scan_games(Self), Event("scan_games"))

UploadFiles ==
    /\ Idle
    /\ \E files \in Selections :
        \E outcomes \in [ 1..Len(files) -> CopyOutcomes ] :
            LET done == upload_files(Self, files, outcomes)
            IN  /\ Cardinality(done.fs) <= MaxFiles
                /\ Return(done, [ Event("upload_files") EXCEPT !.files = files ])

UploadFolder ==
    /\ Idle
    /\ \E src \in { << >>, src_folder }, copied \in SUBSET FolderContents, ok \in BOOLEAN :
        LET done == upload_folder(Self, src, copied, ok)
        IN  /\ ok => copied = FolderContents
            /\ Cardinality(done.fs) <= MaxFiles
            /\ Return(done, [ Event("upload_folder") EXCEPT !.files = << src >> ])

LaunchModder ==
    /\ Idle
    /\ \E found \in BOOLEAN, ok \in BOOLEAN :
        Return(launch_modder(Self, found, ok), Event("launch_modder"))

\* The timer fires: a scheduled callback leaves the queue and runs.
PollModderStatus ==
    /\ Idle
    /\ after_queue > 0
    /\ \E names \in PsutilNames, tasklist \in Tasklists :
           Return(_poll_modder_status([ Self EXCEPT !.after_queue = @ - 1 ], names, tasklist),
                  [ Event("_poll_modder_status") EXCEPT !.names = names, !.tasklist = tasklist ])

\* The argument each control passes to play_selected_game (_build_ui).
play_binding(trigger) ==
    CASE trigger = "games_listbox <Double-1>" -> FALSE
      [] trigger = "modded_listbox <Double-1>" -> TRUE
      [] trigger = "btn_play" -> FALSE

\* A double click on a list box: the first click selects the row under it
\* (none in an empty list box), then the binding runs.
DoubleClick ==
    /\ Idle
    /\ \E lb \in { "games", "modded" }, ok \in BOOLEAN :
        LET trigger == lb \o "_listbox <Double-1>"
            e == [ Event("play_selected_game") EXCEPT !.trigger = trigger ]
        IN  IF RowsOf(lb) = << >>
            THEN Return(play_selected_game(Self, play_binding(trigger), ok), e)
            ELSE \E index \in 0..(Len(RowsOf(lb)) - 1) :
                     Return(play_selected_game(select(Self, lb, index), play_binding(trigger), ok), e)

\* "Play Selected"
PlayButton ==
    /\ Idle
    /\ \E ok \in BOOLEAN :
        Return(play_selected_game(Self, play_binding("btn_play"), ok),
               [ Event("play_selected_game") EXCEPT !.trigger = "btn_play" ])

\* "Delete Selected"
DeleteButton ==
    /\ Idle
    /\ \E confirm \in BOOLEAN, ok \in BOOLEAN :
        Return(delete_selected_game(Self, confirm, ok),
               [ Event("delete_selected_game") EXCEPT !.confirm = confirm ])

\* "Rename Selected"
RenameButton ==
    /\ Idle
    /\ \E new_name \in NewNames, ok \in BOOLEAN :
        Return(rename_selected_game(Self, new_name, ok),
               [ Event("rename_selected_game") EXCEPT !.new_name = new_name ])

\* Something other than the launcher creates or removes a file below games/.
ExternalChange ==
    /\ Idle
    /\ nExternal < MaxExternal
    /\ \E e \in Universe :
           /\ fs' = IF e \in fs THEN fs \ { e } ELSE fs \cup { e }
           /\ Cardinality(fs') <= MaxFiles
    /\ nExternal' = nExternal + 1
    /\ UNCHANGED << games, games_listbox, modded_listbox, games_sel, modded_sel,
                    modder_label, after_queue, ev >>

\* The handler has returned to app.mainloop(), which waits for the next event.
MainLoop ==
    /\ ~Idle
    /\ ev' = Event("idle")
    /\ UNCHANGED << fs, games, games_listbox, modded_listbox, games_sel, modded_sel,
                    modder_label, after_queue, nExternal >>

Next ==
    \/ Select
    \/ ScanGames
    \/ UploadFiles
    \/ UploadFolder
    \/ LaunchModder
    \/ PollModderStatus
    \/ DoubleClick
    \/ PlayButton
    \/ DeleteButton
    \/ RenameButton
    \/ ExternalChange
    \/ MainLoop

Spec == Init /\ [][Next]_vars

\* ------------------------------------------------------------ properties

\* The range of a sequence.
Range(s) == { s[i] : i \in 1..Len(s) }

\* The last four characters of a name, lower-cased, are ".exe".
EndsInExe(name) ==
    /\ Len(name) >= 4
    /\ LET tail == SubSeq(name, Len(name) - 3, Len(name))
       IN  /\ tail[1] = "."
           /\ tail[2] \in { "e", "E" }
           /\ tail[3] \in { "x", "X" }
           /\ tail[4] \in { "e", "E" }

\* The paths of the files on disk, at any depth below games_dir, whose name
\* ends in ".exe".
GamesOnDisk ==
    { e.dir \o sep \o e.name :
        e \in { f \in fs : EndsInExe(f.name) /\ (f.dir = games_dir \/ startswith(f.dir, games_dir \o sep)) } }

\* A path without the launcher's directory in front, and that lower-cased.
Shown(p) == SubSeq(p, Len(base_dir) + 2, Len(p))

LowerShown(p) == lower(Shown(p))

NoDuplicates(s) == \A i, j \in 1..Len(s) : i # j => s[i] # s[j]

\* (C1) When scan_games has returned, the games list holds exactly the files
\* below games_dir, at any depth, whose lower-cased name ends in ".exe", each
\* once, in non-decreasing order of the lower-cased path relative to
\* base_dir, whatever the list held before; and scanning the same disk again
\* gives the same list.
C1_ScanRebuildsList ==
    ev.scans > 0 =>
        /\ Range(games) = GamesOnDisk
        /\ NoDuplicates(games)
        /\ \A i, j \in 1..Len(games) : i < j => ~str_lt(LowerShown(games[j]), LowerShown(games[i]))
        /\ scan_games(Self).games = games

\* The "Scan games/" button ran on a disk changed from outside since the last
\* scan; the disk holds a file that is no game, and a game whose name is in
\* upper case two levels down is in the list.
C1_Witness ==
    /\ ev.op = "scan_games"
    /\ nExternal > 0
    /\ Entry(join(games_dir, n_txt)) \in fs
    /\ join(dir_ab, Y_EXE) \in Range(games)

\* The places of the calls of `fn` among the os calls of a handler, of those
\* that failed, and of those that succeeded.
CallsOf(e, fn) == { i \in 1..Len(e.calls) : e.calls[i].fn = fn }

Failed(e) == { i \in 1..Len(e.calls) : ~e.calls[i].ok }

Succeeded(e) == { i \in 1..Len(e.calls) : e.calls[i].ok }

\* The game at the selected row of the modded list box, None when no row or
\* no game is selected.
SelectedIn(sel, list) ==
    IF sel # << >> /\ sel[1] < Len(list) THEN list[sel[1] + 1] ELSE None

\* (C2) rename_selected_game passes to os.rename the file games[i] of the
\* selected row i of the modded list box, never another listed file.
C2_RenamesSelectedEntry ==
    [][ ev'.op = "rename_selected_game" =>
            \A c \in CallsOf(ev', "os.rename") :
                ev'.calls[c].arg = SelectedIn(modded_sel, games) ]_vars

\* (C3) delete_selected_game removes no file but the one at the selected
\* entry's path games[i]; if that file is gone, it removes none.
C3_DeletesSelectedEntry ==
    [][ ev'.op = "delete_selected_game" =>
            /\ \A c \in CallsOf(ev', "os.remove") \cap Succeeded(ev') :
                   ev'.calls[c].arg = SelectedIn(modded_sel, games)
            /\ \A e \in fs \ fs' : PathOf(e) = SelectedIn(modded_sel, games) ]_vars

\* The list box a control of play_selected_game stands for: the games list
\* box for a double click on it, the modded list box for a double click on it
\* and for the "Play Selected" button beside it.
PlaySelection(trigger, gsel, msel) ==
    IF trigger = "games_listbox <Double-1>" THEN gsel ELSE msel

\* (C4) play_selected_game spawns the executable of the entry selected in the
\* list box its control stands for, in that executable's directory; with no
\* selection, the placeholder row selected or the file missing it spawns
\* nothing and shows a message.
C4_PlaysSelectedEntry ==
    [][ ev'.op = "play_selected_game" =>
            LET chosen == SelectedIn(PlaySelection(ev'.trigger, games_sel', modded_sel'), games)
                spawns == CallsOf(ev', "subprocess.Popen") \cap Succeeded(ev')
            IN  /\ \A c \in spawns :
                       /\ chosen # None
                       /\ IsFile(fs, chosen)
                       /\ ev'.calls[c].arg = chosen
                       /\ ev'.calls[c].arg2 = dirname(chosen)
                /\ spawns = {} => ev'.dialogs # << >> ]_vars

\* The handlers of the user actions that touch the disk or spawn a process.
UserActions ==
    { "upload_files", "upload_folder", "launch_modder", "play_selected_game",
      "delete_selected_game", "rename_selected_game" }

\* The error dialogs shown by a handler.
ErrorsShown(e) == { i \in 1..Len(e.dialogs) : e.dialogs[i][1] = "showerror" }

\* (C5) A failure of a disk or spawn call inside a user action is caught in
\* the handler and shown as an error dialog: the handler returns normally,
\* every failed call has its dialog, and no failed call is made again.
C5_FailuresCaughtAndShown ==
    ev.op \in UserActions =>
        /\ ~ev.raised
        /\ Cardinality(ErrorsShown(ev)) >= Cardinality(Failed(ev))
        /\ \A i \in Failed(ev) : \A j \in 1..Len(ev.calls) : j # i => ev.calls[j] # ev.calls[i]
        /\ Failed(ev) # {} => ev.dialogs[Len(ev.dialogs)][1] = "showerror"

\* The spawn of a selected game failed.
C5_Witness ==
    /\ ev.op = "play_selected_game"
    /\ Failed(ev) # {}
    /\ ~ev.raised

\* What is_process_running answers for what psutil and tasklist report: a
\* process named as the modder, whatever the case, or the modder's name
\* somewhere in the output of tasklist.
ModderSeen(names, tasklist) ==
    \/ \E i \in 1..Len(names) :
           /\ Len(names[i]) = Len(MODDER_EXE)
           /\ \A k \in 1..Len(MODDER_EXE) : lower_char(names[i][k]) = lower_char(MODDER_EXE[k])
    \/ /\ tasklist.ok
       /\ \E at \in 0..(Len(tasklist.out) - Len(MODDER_EXE)) :
              \A k \in 1..Len(MODDER_EXE) :
                  lower_char(tasklist.out[at + k]) = lower_char(MODDER_EXE[k])

\* (C6) At every point of the launcher's life exactly one poll is pending,
\* whatever the user does; and each poll leaves the label at "running" or
\* "not running" as is_process_running answered.
C6_PollAlwaysPending ==
    /\ after_queue = 1
    /\ ev.op = "_poll_modder_status" =>
           modder_label = IF ModderSeen(ev.names, ev.tasklist)
                          THEN "Modder status: running"
                          ELSE "Modder status: not running"

\* A poll found the modder by tasklist alone and another poll is pending.
C6_Witness ==
    /\ ev.op = "_poll_modder_status"
    /\ ev.names = << x_exe >>
    /\ ev.tasklist.ok
    /\ modder_label = "Modder status: running"
    /\ after_queue = 1

\* The user declined: "no" to the delete confirmation, or the rename prompt
\* cancelled or left empty or given a name that does not end in ".exe".
Declined(e) ==
    \/ e.op = "delete_selected_game" /\ ~e.confirm
    \/ e.op = "rename_selected_game" /\ (e.new_name = None \/ ~EndsInExe(e.new_name))

\* (C7) Delete and rename change the disk only after the user has confirmed
\* in a dialog: a declined delete or rename removes and renames nothing and
\* leaves the games list and both list boxes as they were.
C7_NoChangeUnlessConfirmed ==
    [][ /\ Declined(ev') =>
            /\ ev'.calls = << >>
            /\ UNCHANGED << fs, games, games_listbox, modded_listbox >>
        /\ ev'.op = "delete_selected_game" /\ ev'.calls # << >> =>
            << "askyesno", "Delete" >> \in Range(ev'.dialogs)
        /\ ev'.op = "rename_selected_game" /\ ev'.calls # << >> =>
            << "askstring", "Rename" >> \in Range(ev'.dialogs) ]_vars

\* The rename prompt was shown for a selected game and the user entered a
\* name that does not end in ".exe".
C7_Witness ==
    /\ ev.op = "rename_selected_game"
    /\ ev.new_name = n_txt
    /\ << "askstring", "Rename" >> \in Range(ev.dialogs)
    /\ Len(games) = 2

\* (C8) In every state the list boxes mirror the games list: the modded list
\* box has one row for each game, row i showing the path of games[i]
\* relative to base_dir; the games list box has the same rows, or the single
\* placeholder row when there is no game.
C8_ListBoxesMirrorGames ==
    /\ Len(modded_listbox) = Len(games)
    /\ \A i \in 1..Len(games) : modded_listbox[i] = Shown(games[i])
    /\ games_listbox = IF games = << >> THEN << NO_GAMES_ROW >> ELSE modded_listbox

\* A rename was followed by its scan and two games are listed.
C8_Witness ==
    /\ ev.op = "rename_selected_game"
    /\ ev.scans = 1
    /\ Len(games) = 2
    /\ Len(modded_listbox) = 2

\* (C9) As long as nothing but the launcher has changed the disk, the games
\* list holds exactly the games on disk, after every action, whether it
\* succeeded, failed or was cancelled.
C9_NeverStaleWithoutExternalChange ==
    nExternal = 0 => Range(games) = GamesOnDisk /\ NoDuplicates(games)

\* A copy of an upload failed after it had created its file, and the file is
\* listed.
C9_Witness ==
    /\ nExternal = 0
    /\ ev.op = "upload_files"
    /\ \E i \in Failed(ev) : ev.calls[i].arg2 \in Range(games)

\* The name part of a selected source file, which ends at its last "/".
NameOfSource(src) ==
    LET cut == CHOOSE k \in 0..Len(src) :
                   /\ k > 0 => src[k] = "/"
                   /\ \A j \in (k + 1)..Len(src) : src[j] # "/"
    IN  SubSeq(src, cut + 1, Len(src))

\* (C10) upload_files tries each selected file once, in the order selected,
\* copying it to games_dir under its base name; a failed copy shows an error
\* and the remaining files are still tried; scan_games runs once after the
\* last file however many copies failed. An empty selection copies nothing
\* and does not scan.
C10_UploadIsolatesFailures ==
    ev.op = "upload_files" =>
        IF ev.files = << >> THEN ev.calls = << >> /\ ev.scans = 0
        ELSE /\ Len(ev.calls) = Len(ev.files)
             /\ \A i \in 1..Len(ev.files) :
                    /\ ev.calls[i].fn = "shutil.copy2"
                    /\ ev.calls[i].arg = ev.files[i]
                    /\ ev.calls[i].arg2 = games_dir \o sep \o NameOfSource(ev.files[i])
                    /\ ev.calls[i].ok => IsFile(fs, ev.calls[i].arg2)
             /\ Cardinality(ErrorsShown(ev)) = Cardinality(Failed(ev))
             /\ ev.scans = 1

\* Of two selected files the first failed to copy and the second was copied.
C10_Witness ==
    /\ ev.op = "upload_files"
    /\ Len(ev.files) = 2
    /\ Len(ev.calls) = 2
    /\ ~ev.calls[1].ok
    /\ ev.calls[2].ok
    /\ ev.scans = 1

====
